---- MODULE Spec2Model ----
(***************************************************************************)
(* Model of the django-axes lockout decision helpers:                      *)
(*   axes/handlers/base.py  AxesHandler.is_allowed and its three steps     *)
(*   axes/helpers.py        get_client_username, get_client_parameters,    *)
(*                          get_client_cache_key, get_cool_off_iso8601,    *)
(*                          the white/blacklist predicates                 *)
(*                                                                         *)
(* Python values are modelled as follows.                                  *)
(*   str    a sequence of one-character strings, <<"a", "b">> for 'ab';    *)
(*          the character written "U+00E9" is the non-ASCII letter e-acute *)
(*   list   a sequence of its items                                        *)
(*   dict   a function from its keys to its values, <<>> for {}            *)
(*   None   None where a str is expected, NoneList where a list is,        *)
(*          NoneDict where a dict is (TLC compares like with like only)    *)
(*   bool   TRUE and FALSE                                                 *)
(* Formatted output (the ISO 8601 duration, the hex digest) is a TLA+      *)
(* string.                                                                 *)
(***************************************************************************)
EXTENDS Integers, Sequences, FiniteSets, TLC

VARIABLES
    settings,     \* django.conf settings read by the helpers (axes.conf)
    pc,           \* the function that runs next, "done" after the call ended
    handler,      \* the AxesHandler in use: what its get_failures does
    args,         \* the arguments of the call in progress
    returned,     \* <<v>> once the call has returned v, <<>> before
    raised,       \* <<e>> once the call has raised e, <<>> otherwise
    trace         \* the functions entered so far, in call order

vars == <<settings, handler, args, returned, raised, pc, trace>>

-----------------------------------------------------------------------------
(* Bounds of the model *)

\* longest username / IP address text drawn for a fingerprint
MaxLen == 2
\* largest failure count a get_failures implementation returns
MaxFailures == 4
\* largest settings.AXES_FAILURE_LIMIT
MaxLimit == 3
\* largest number of whole days in a cool off
MaxDays == 2

-----------------------------------------------------------------------------
(* Python values *)

None == <<"None">>
NoneList == <<None>>
NoneDict == [None |-> None]

\* bool(value) of an optional str, list and dict: None and the empty value are falsy
Truthy(value) == value # None /\ value # <<>>
ListTruthy(list) == list # NoneList /\ list # <<>>
DictTruthy(dict) == dict # NoneDict /\ dict # <<>>

\* item in list
InList(item, list) == \E i \in DOMAIN list : list[i] = item

\* dict.get(key, None)
DictGet(dict, key) == IF key \in DOMAIN dict THEN dict[key] ELSE None

\* str[:limit]
Truncate(text, limit) == IF Len(text) <= limit THEN text ELSE SubSeq(text, 1, limit)

Chars == {"a", "U+00E9"}

\* the str values of length at most n over Chars
Texts(n) == UNION {[1..k -> Chars] : k \in 0..n}

IpA == <<"1", "0", ".", "0", ".", "0", ".", "5">>
IpB == <<"1", "0", ".", "0", ".", "0", ".", "6">>
UNKNOWN == <<"<", "u", "n", "k", "n", "o", "w", "n", ">">>

\* settings of axes.conf with the values the helpers below read
DefaultSettings ==
    [AXES_ONLY_USER_FAILURES |-> FALSE,
     AXES_LOCK_OUT_BY_COMBINATION_USER_AND_IP |-> FALSE,
     AXES_USE_USER_AGENT |-> FALSE,
     AXES_IP_WHITELIST |-> NoneList,
     AXES_IP_BLACKLIST |-> NoneList,
     AXES_ONLY_WHITELIST |-> FALSE,
     AXES_NEVER_LOCKOUT_WHITELIST |-> FALSE,
     AXES_NEVER_LOCKOUT_GET |-> FALSE,
     AXES_LOCK_OUT_AT_FAILURE |-> TRUE,
     AXES_FAILURE_LIMIT |-> MaxLimit,
     AXES_USERNAME_CALLABLE |-> [type |-> "NoneType", value |-> ""],
     AXES_USERNAME_FORM_FIELD |-> "username"]

NoHandler == [raises |-> "NotImplementedError", count |-> 0]
NoArgs == [function |-> "none"]

-----------------------------------------------------------------------------
(* axes/helpers.py: white and black lists *)

is_ip_address_in_whitelist(ip_address) ==
    IF ~ListTruthy(settings.AXES_IP_WHITELIST) THEN FALSE
    ELSE InList(ip_address, settings.AXES_IP_WHITELIST)

is_ip_address_in_blacklist(ip_address) ==
    IF ~ListTruthy(settings.AXES_IP_BLACKLIST) THEN FALSE
    ELSE InList(ip_address, settings.AXES_IP_BLACKLIST)

is_client_ip_address_whitelisted(req) ==
    IF settings.AXES_NEVER_LOCKOUT_WHITELIST /\ is_ip_address_in_whitelist(req.axes_ip_address)
    THEN TRUE
    ELSE IF settings.AXES_ONLY_WHITELIST /\ is_ip_address_in_whitelist(req.axes_ip_address)
    THEN TRUE
    ELSE FALSE

\* mutant: the only_whitelist clause of the blacklist check is missing
is_client_ip_address_blacklisted_no_only_whitelist(req) ==
    is_ip_address_in_blacklist(req.axes_ip_address)

is_client_ip_address_blacklisted(req) ==
    IF is_ip_address_in_blacklist(req.axes_ip_address)
    THEN TRUE
    ELSE IF settings.AXES_ONLY_WHITELIST /\ ~is_ip_address_in_whitelist(req.axes_ip_address)
    THEN TRUE
    ELSE FALSE

\* mutant: the method is compared with the lower-case verb
is_client_method_whitelisted_lower_case(req) ==
    IF settings.AXES_NEVER_LOCKOUT_GET /\ req.method = "get" THEN TRUE ELSE FALSE

is_client_method_whitelisted(req) ==
    IF settings.AXES_NEVER_LOCKOUT_GET /\ req.method = "GET" THEN TRUE ELSE FALSE

-----------------------------------------------------------------------------
(* axes/handlers/base.py: AxesHandler.is_allowed, one action per method *)

Enter(name) == trace' = Append(trace, name)

\* return value from is_allowed
Return(value) ==
    /\ returned' = <<value>>
    /\ pc' = "done"
    /\ UNCHANGED raised

\* an exception leaves is_allowed: no frame of the handler catches it
Raise(error) ==
    /\ raised' = <<error>>
    /\ pc' = "done"
    /\ UNCHANGED returned

\* go on with the method `name`
Goto(name) ==
    /\ pc' = name
    /\ UNCHANGED <<returned, raised>>

\* mutant: is_allowed starts with the whitelist step
is_allowed_whitelist_first ==
    /\ pc = "is_allowed"
    /\ Enter("is_allowed")
    /\ Goto("is_whitelisted")
    /\ UNCHANGED <<settings, handler, args>>

\* is_allowed is entered: its first statement calls is_blacklisted
is_allowed ==
    /\ pc = "is_allowed"
    /\ Enter("is_allowed")
    /\ Goto("is_blacklisted")
    /\ UNCHANGED <<settings, handler, args>>

\* if self.is_blacklisted(request, credentials): return False
is_blacklisted ==
    /\ pc = "is_blacklisted"
    /\ Enter("is_blacklisted")
    /\ IF is_client_ip_address_blacklisted(args.request)
       THEN Return(FALSE)
       ELSE Goto("is_whitelisted")
    /\ UNCHANGED <<settings, handler, args>>

\* if self.is_whitelisted(request, credentials): return True
is_whitelisted ==
    /\ pc = "is_whitelisted"
    /\ Enter("is_whitelisted")
    /\ IF is_client_ip_address_whitelisted(args.request)
       THEN Return(TRUE)
       ELSE IF is_client_method_whitelisted(args.request)
       THEN Return(TRUE)
       ELSE Goto("is_locked")
    /\ UNCHANGED <<settings, handler, args>>

\* mutant: is_locked asks for the failures without reading the setting
is_locked_always_counts ==
    /\ pc = "is_locked"
    /\ Enter("is_locked")
    /\ Goto("get_failures")
    /\ UNCHANGED <<settings, handler, args>>

\* is_locked up to its call of get_failures; without the setting it returns
\* False and is_allowed returns True
is_locked ==
    /\ pc = "is_locked"
    /\ Enter("is_locked")
    /\ IF settings.AXES_LOCK_OUT_AT_FAILURE
       THEN Goto("get_failures")
       ELSE Return(TRUE)
    /\ UNCHANGED <<settings, handler, args>>

\* mutant: the comparison with the limit is strict
get_failures_strictly_greater ==
    /\ pc = "get_failures"
    /\ Enter("get_failures")
    /\ IF handler.raises # ""
       THEN Raise(handler.raises)
       ELSE Return(~(handler.count > settings.AXES_FAILURE_LIMIT))
    /\ UNCHANGED <<settings, handler, args>>

\* get_failures of the handler in use, the comparison of is_locked with the
\* limit, and the return of is_allowed: False if locked, True otherwise
get_failures ==
    /\ pc = "get_failures"
    /\ Enter("get_failures")
    /\ IF handler.raises # ""
       THEN Raise(handler.raises)
       ELSE Return(~(handler.count >= settings.AXES_FAILURE_LIMIT))
    /\ UNCHANGED <<settings, handler, args>>

IpLists == {NoneList, <<>>, <<IpA>>, <<IpB>>, <<IpA, IpB>>}

Handlers ==
    {[raises |-> "NotImplementedError", count |-> 0], [raises |-> "ConnectionError", count |-> 0]}
        \cup {[raises |-> "", count |-> n] : n \in 0..MaxFailures}

AllowedRequests == [axes_ip_address : {None, IpA, IpB}, method : {"GET", "POST"}]

InitAllowed ==
    /\ settings \in {[DefaultSettings EXCEPT
                          !.AXES_IP_WHITELIST = wl, !.AXES_IP_BLACKLIST = bl,
                          !.AXES_ONLY_WHITELIST = f[1], !.AXES_NEVER_LOCKOUT_WHITELIST = f[2],
                          !.AXES_NEVER_LOCKOUT_GET = f[3], !.AXES_LOCK_OUT_AT_FAILURE = f[4],
                          !.AXES_FAILURE_LIMIT = limit] :
                        wl \in IpLists, bl \in IpLists, f \in [1..4 -> BOOLEAN], limit \in 1..MaxLimit}
    /\ handler \in Handlers
    /\ args \in [function : {"is_allowed"}, request : AllowedRequests]
    /\ pc = "is_allowed"
    /\ returned = <<>>
    /\ raised = <<>>
    /\ trace = <<>>

NextAllowed ==
    \/ is_allowed
    \/ is_blacklisted
    \/ is_whitelisted
    \/ is_locked
    \/ get_failures

SpecAllowed == InitAllowed /\ [][NextAllowed]_vars

-----------------------------------------------------------------------------
(* Outcome of a helper: a returned value or a raised exception *)

Ret(value) == [returned |-> <<value>>, raised |-> <<>>]
Exc(error) == [returned |-> <<>>, raised |-> <<error>>]

\* the call in progress ends with the outcome
Finish(outcome) ==
    /\ returned' = outcome.returned
    /\ raised' = outcome.raised
    /\ pc' = "done"

-----------------------------------------------------------------------------
(* axes/helpers.py: get_client_username *)

\* what the callables known to the model return for (request, credentials)
CallUsernameCallable(name, req, creds) ==
    CASE name = "constant_a" -> <<"a">>
      [] name = "returns_None" -> None
      [] OTHER -> DictGet(req.POST, "email")

\* django.utils.module_loading.import_string: the dotted paths that resolve
ImportString(path) ==
    IF path = "app.utils.constant_a" THEN Ret("constant_a")
    ELSE IF path = "app.utils.post_email" THEN Ret("post_email")
    ELSE Exc("ImportError")

\* bool(settings.AXES_USERNAME_CALLABLE): None and '' are falsy
CallableTruthy(setting) ==
    CASE setting.type = "NoneType" -> FALSE
      [] setting.type = "str" -> setting.value # ""
      [] OTHER -> TRUE

get_client_username(req, creds) ==
    IF CallableTruthy(settings.AXES_USERNAME_CALLABLE)
    THEN IF settings.AXES_USERNAME_CALLABLE.type = "function"
         THEN Ret(CallUsernameCallable(settings.AXES_USERNAME_CALLABLE.value, req, creds))
         ELSE IF settings.AXES_USERNAME_CALLABLE.type = "str"
         THEN LET imported == ImportString(settings.AXES_USERNAME_CALLABLE.value)
              IN  IF imported.raised # <<>> THEN imported
                  ELSE Ret(CallUsernameCallable(imported.returned[1], req, creds))
         ELSE Exc("TypeError")
    ELSE IF DictTruthy(creds)
    THEN Ret(DictGet(creds, settings.AXES_USERNAME_FORM_FIELD))
    ELSE Ret(DictGet(req.POST, settings.AXES_USERNAME_FORM_FIELD))

\* ipware.ip2.get_client_ip with the proxy settings: the address it resolves
\* for the request, None if it resolves none
get_client_ip_address(req) == req.client_ip

\* request.META.get('HTTP_USER_AGENT', '<unknown>')[:255]
get_client_user_agent(req) ==
    Truncate(IF "HTTP_USER_AGENT" \in DOMAIN req.META THEN req.META["HTTP_USER_AGENT"] ELSE UNKNOWN,
             255)

-----------------------------------------------------------------------------
(* axes/helpers.py: get_client_parameters; the dict is the sequence of its *)
(* <<key, value>> items in insertion order                                 *)

\* mutant: the combination flag is looked at before only_user_failures
get_client_parameters_combination_first(username, ip_address, user_agent) ==
    (IF settings.AXES_LOCK_OUT_BY_COMBINATION_USER_AND_IP
     THEN << <<"username", username>>, <<"ip_address", ip_address>> >>
     ELSE IF settings.AXES_ONLY_USER_FAILURES
     THEN << <<"username", username>> >>
     ELSE << <<"ip_address", ip_address>> >>)
    \o (IF settings.AXES_USE_USER_AGENT /\ ~settings.AXES_ONLY_USER_FAILURES
        THEN << <<"user_agent", user_agent>> >> ELSE <<>>)

\* mutant: the user agent is added in every mode
get_client_parameters_user_agent_always(username, ip_address, user_agent) ==
    (IF settings.AXES_ONLY_USER_FAILURES
     THEN << <<"username", username>> >>
     ELSE IF settings.AXES_LOCK_OUT_BY_COMBINATION_USER_AND_IP
     THEN << <<"username", username>>, <<"ip_address", ip_address>> >>
     ELSE << <<"ip_address", ip_address>> >>)
    \o (IF settings.AXES_USE_USER_AGENT THEN << <<"user_agent", user_agent>> >> ELSE <<>>)

get_client_parameters(username, ip_address, user_agent) ==
    IF settings.AXES_ONLY_USER_FAILURES
    THEN << <<"username", username>> >>
    ELSE (IF settings.AXES_LOCK_OUT_BY_COMBINATION_USER_AND_IP
          THEN << <<"username", username>>, <<"ip_address", ip_address>> >>
          ELSE << <<"ip_address", ip_address>> >>)
         \o (IF settings.AXES_USE_USER_AGENT THEN << <<"user_agent", user_agent>> >> ELSE <<>>)

-----------------------------------------------------------------------------
(* str.encode(): UTF-8 *)

CodePoint(char) ==
    CASE char = "a" -> 97 [] char = "b" -> 98 [] char = "U+00E9" -> 233
      [] char = "<" -> 60 [] char = ">" -> 62 [] char = "." -> 46
      [] char = "0" -> 48 [] char = "1" -> 49 [] char = "5" -> 53 [] char = "6" -> 54
      [] char = "k" -> 107 [] char = "n" -> 110 [] char = "o" -> 111
      [] char = "u" -> 117 [] char = "w" -> 119

Utf8(cp) ==
    IF cp < 128 THEN <<cp>>
    ELSE IF cp < 2048 THEN <<192 + (cp \div 64), 128 + (cp % 64)>>
    ELSE IF cp < 65536 THEN <<224 + (cp \div 4096), 128 + ((cp \div 64) % 64), 128 + (cp % 64)>>
    ELSE <<240 + (cp \div 262144), 128 + ((cp \div 4096) % 64), 128 + ((cp \div 64) % 64),
           128 + (cp % 64)>>

RECURSIVE Encode(_)
Encode(text) == IF text = <<>> THEN <<>> ELSE Utf8(CodePoint(Head(text))) \o Encode(Tail(text))

-----------------------------------------------------------------------------
(* hashlib.md5 (RFC 1321) on a sequence of bytes *)

\* bitwise and of two numbers of the given number of bits
RECURSIVE BitAnd(_, _, _)
BitAnd(m, n, bits) ==
    IF bits = 0 THEN 0
    ELSE (m % 2) * (n % 2) + 2 * BitAnd(m \div 2, n \div 2, bits - 1)
And16(m, n) == BitAnd(m, n, 16)

\* a 32-bit word is <<high 16 bits, low 16 bits>>

And32(a, b) == <<And16(a[1], b[1]), And16(a[2], b[2])>>
Xor32(a, b) == <<a[1] + b[1] - 2 * And16(a[1], b[1]), a[2] + b[2] - 2 * And16(a[2], b[2])>>
Not32(a) == <<65535 - a[1], 65535 - a[2]>>
Or32(a, b) == Not32(And32(Not32(a), Not32(b)))
Add32(a, b) ==
    LET lo == a[2] + b[2]
        hi == a[1] + b[1] + (lo \div 65536)
    IN  <<hi % 65536, lo % 65536>>
Rotl32(a, s) ==
    LET w == IF s >= 16 THEN <<a[2], a[1]>> ELSE a
        r == s % 16
    IN  IF r = 0 THEN w
        ELSE <<((w[1] * 2^r) % 65536) + (w[2] \div 2^(16 - r)),
               ((w[2] * 2^r) % 65536) + (w[1] \div 2^(16 - r))>>

\* floor(2^32 * abs(sin(i))) for i = 1..64
MD5_T ==
    <<
      <<55146, 42104>>, <<59591, 46934>>, <<9248, 28891>>, <<49597, 52974>>,
      <<62844, 4015>>, <<18311, 50730>>, <<43056, 17939>>, <<64838, 38145>>,
      <<27008, 39128>>, <<35652, 63407>>, <<65535, 23473>>, <<35164, 55230>>,
      <<27536, 4386>>, <<64920, 29075>>, <<42617, 17294>>, <<18868, 2081>>,
      <<63006, 9570>>, <<49216, 45888>>, <<9822, 23121>>, <<59830, 51114>>,
      <<54831, 4189>>, <<580, 5203>>, <<55457, 59009>>, <<59347, 64456>>,
      <<8673, 52710>>, <<49975, 2006>>, <<62677, 3463>>, <<17754, 5357>>,
      <<43491, 59653>>, <<64751, 41976>>, <<26479, 729>>, <<36138, 19594>>,
      <<65530, 14658>>, <<34673, 63105>>, <<28061, 24866>>, <<64997, 14348>>,
      <<42174, 59972>>, <<19422, 53161>>, <<63163, 19296>>, <<48831, 48240>>,
      <<10395, 32454>>, <<60065, 10234>>, <<54511, 12421>>, <<1160, 7429>>,
      <<55764, 53305>>, <<59099, 39397>>, <<8098, 31992>>, <<50348, 22117>>,
      <<62505, 8772>>, <<17194, 65431>>, <<43924, 9127>>, <<64659, 41017>>,
      <<25947, 22979>>, <<36620, 52370>>, <<65519, 62589>>, <<34180, 24017>>,
      <<28584, 32335>>, <<65068, 59104>>, <<41729, 17172>>, <<19976, 4513>>,
      <<63315, 32386>>, <<48442, 62005>>, <<10967, 53947>>, <<60294, 54161>>
    >>
\* the shifts of the four rounds
MD5_S == <<<<7, 12, 17, 22>>, <<5, 9, 14, 20>>, <<4, 11, 16, 23>>, <<6, 10, 15, 21>>>>
MD5_IV == <<<<26437, 8961>>, <<61389, 43913>>, <<39098, 56574>>, <<4146, 21622>>>>

Zeros(n) == [i \in 1..n |-> 0]
\* the message, the bit 1, zeros up to 56 mod 64, the bit length in 64 bits little-endian
MD5Pad(bytes) ==
    LET n == Len(bytes)
        z == (55 - n) % 64
        bits == 8 * n
    IN  bytes \o <<128>> \o Zeros(z)
          \o <<bits % 256, (bits \div 256) % 256, (bits \div 65536) % 256, bits \div 16777216>>
          \o <<0, 0, 0, 0>>
\* the k-th little-endian word of the padded message, from 0
MD5Word(bytes, k) ==
    <<bytes[4 * k + 3] + 256 * bytes[4 * k + 4], bytes[4 * k + 1] + 256 * bytes[4 * k + 2]>>
MD5Step(st, M, i) ==
    LET A == st[1]  B == st[2]  C == st[3]  D == st[4]
        r == i \div 16
        F == CASE r = 0 -> Or32(And32(B, C), And32(Not32(B), D))
               [] r = 1 -> Or32(And32(D, B), And32(Not32(D), C))
               [] r = 2 -> Xor32(Xor32(B, C), D)
               [] OTHER -> Xor32(C, Or32(B, Not32(D)))
        g == CASE r = 0 -> i
               [] r = 1 -> (5 * i + 1) % 16
               [] r = 2 -> (3 * i + 5) % 16
               [] OTHER -> (7 * i) % 16
        X == Add32(Add32(Add32(F, A), MD5_T[i + 1]), M[g + 1])
    IN  <<D, Add32(B, Rotl32(X, MD5_S[r + 1][(i % 4) + 1])), B, C>>

\* the steps lo .. hi - 1 on the state st; the state after the first half is
\* computed once, as the value of mid
RECURSIVE MD5Rounds(_, _, _, _)
MD5Rounds(st, M, lo, hi) ==
    IF hi = lo + 1 THEN MD5Step(st, M, lo)
    ELSE CHOOSE out \in {MD5Rounds(mid, M, (lo + hi) \div 2, hi) :
                         mid \in {MD5Rounds(st, M, lo, (lo + hi) \div 2)}} : TRUE

\* the 64 steps on the n-th block of the padded message, added to the state
MD5Block(st, bytes, n) ==
    LET M == [k \in 1..16 |-> MD5Word(bytes, 16 * n + k - 1)]
    IN  CHOOSE sum \in {[j \in 1..4 |-> Add32(st[j], out[j])] :
                         out \in {MD5Rounds(st, M, 0, 64)}} : TRUE

RECURSIVE MD5Blocks(_, _, _)
MD5Blocks(st, bytes, n) ==
    IF 64 * n = Len(bytes) THEN st
    ELSE CHOOSE out \in {MD5Blocks(next, bytes, n + 1) : next \in {MD5Block(st, bytes, n)}} : TRUE

HexDigit(d) == CASE d = 0 -> "0" [] d = 1 -> "1" [] d = 2 -> "2" [] d = 3 -> "3" [] d = 4 -> "4"
                 [] d = 5 -> "5" [] d = 6 -> "6" [] d = 7 -> "7" [] d = 8 -> "8" [] d = 9 -> "9"
                 [] d = 10 -> "a" [] d = 11 -> "b" [] d = 12 -> "c" [] d = 13 -> "d"
                 [] d = 14 -> "e" [] OTHER -> "f"
HexByte(b) == HexDigit(b \div 16) \o HexDigit(b % 16)
HexWord(w) == HexByte(w[2] % 256) \o HexByte(w[2] \div 256) \o HexByte(w[1] % 256) \o HexByte(w[1] \div 256)
\* hashlib.md5(bytes).hexdigest()
md5_hexdigest(bytes) ==
    LET st == MD5Blocks(MD5_IV, MD5Pad(bytes), 0)
    IN  HexWord(st[1]) \o HexWord(st[2]) \o HexWord(st[3]) \o HexWord(st[4])

\* md5(bytes).hexdigest(), with the digests of the byte strings the fingerprints
\* drawn below produce computed once
MD5Inputs ==
    {Encode(text) : text \in Texts(MaxLen + 3)}
        \cup {Encode(text \o UNKNOWN) : text \in Texts(MaxLen + 2)}
MD5Memo == [bytes \in MD5Inputs |-> md5_hexdigest(bytes)]
md5(bytes) == IF bytes \in MD5Inputs THEN MD5Memo[bytes] ELSE md5_hexdigest(bytes)

-----------------------------------------------------------------------------
(* axes/helpers.py: get_client_cache_key *)

\* ''.join(items) for a sequence of str
RECURSIVE Join(_)
Join(items) == IF items = <<>> THEN <<>> ELSE Head(items) \o Join(Tail(items))

\* [value for value in filter_kwargs.values() if value]
TruthyValues(filter_kwargs) ==
    LET kept == SelectSeq(filter_kwargs, LAMBDA item : Truthy(item[2]))
    IN  [i \in DOMAIN kept |-> kept[i][2]]

Reverse(items) == [i \in DOMAIN items |-> items[Len(items) + 1 - i]]

\* mutant: the components are joined last to first
cache_key_of_parameters_reversed(filter_kwargs) ==
    LET cache_key_components == Join(Reverse(TruthyValues(filter_kwargs)))
        cache_key_digest == md5(Encode(cache_key_components))
    IN  "axes-" \o cache_key_digest

\* the key of the selected parameters
cache_key_of_parameters(filter_kwargs) ==
    LET cache_key_components == Join(TruthyValues(filter_kwargs))
        cache_key_digest == md5(Encode(cache_key_components))
    IN  "axes-" \o cache_key_digest

get_client_cache_key(request_or_attempt, creds) ==
    LET username == IF request_or_attempt.kind = "HttpRequest"
                    THEN get_client_username(request_or_attempt, creds)
                    ELSE Ret(request_or_attempt.username)
        ip_address == IF request_or_attempt.kind = "HttpRequest"
                      THEN get_client_ip_address(request_or_attempt)
                      ELSE request_or_attempt.ip_address
        user_agent == IF request_or_attempt.kind = "HttpRequest"
                      THEN get_client_user_agent(request_or_attempt)
                      ELSE request_or_attempt.user_agent
    IN  IF username.raised # <<>> THEN username
        ELSE Ret(cache_key_of_parameters(
                     get_client_parameters(username.returned[1], ip_address, user_agent)))

-----------------------------------------------------------------------------
(* The cache key specification: one call of get_client_cache_key or of     *)
(* get_client_parameters on inputs drawn by Init                           *)

Usernames == {None} \cup Texts(MaxLen)
IpAddresses == {None, <<>>, <<"a">>, <<"U+00E9", "a">>}
UserAgents == {None, <<"a">>}

Attempts ==
    [kind : {"AccessAttempt"}, username : Usernames, ip_address : IpAddresses,
     user_agent : UserAgents]

KeyRequests ==
    [kind : {"HttpRequest"},
     POST : {<<>>, [username |-> <<"U+00E9">>]},
     META : {<<>>, [HTTP_USER_AGENT |-> <<"a">>]},
     client_ip : IpAddresses]

KeyCredentials == {NoneDict, <<>>, [username |-> <<"a">>]}

TrackingSettings ==
    {[DefaultSettings EXCEPT
          !.AXES_ONLY_USER_FAILURES = f[1],
          !.AXES_LOCK_OUT_BY_COMBINATION_USER_AND_IP = f[2],
          !.AXES_USE_USER_AGENT = f[3]] : f \in [1..3 -> BOOLEAN]}

call_get_client_cache_key ==
    /\ pc = "get_client_cache_key"
    /\ Enter("get_client_cache_key")
    /\ Finish(get_client_cache_key(args.request_or_attempt, args.credentials))
    /\ UNCHANGED <<settings, handler, args>>

call_get_client_parameters ==
    /\ pc = "get_client_parameters"
    /\ Enter("get_client_parameters")
    /\ Finish(Ret(get_client_parameters(args.username, args.ip_address, args.user_agent)))
    /\ UNCHANGED <<settings, handler, args>>

InitKey ==
    /\ settings \in TrackingSettings
    /\ handler = NoHandler
    /\ args \in [function : {"get_client_cache_key"}, request_or_attempt : Attempts,
                 credentials : {NoneDict}]
            \cup [function : {"get_client_cache_key"}, request_or_attempt : KeyRequests,
                  credentials : KeyCredentials]
            \cup [function : {"get_client_parameters"}, username : Usernames,
                  ip_address : IpAddresses, user_agent : UserAgents]
    /\ pc = args.function
    /\ returned = <<>>
    /\ raised = <<>>
    /\ trace = <<>>

NextKey ==
    \/ call_get_client_cache_key
    \/ call_get_client_parameters

SpecKey == InitKey /\ [][NextKey]_vars

-----------------------------------------------------------------------------
(* The username specification: one call of get_client_username on the      *)
(* settings, request and credentials drawn by Init                         *)

UsernameCallables ==
    {[type |-> "NoneType", value |-> ""],
     [type |-> "str", value |-> ""],
     [type |-> "str", value |-> "app.utils.constant_a"],
     [type |-> "str", value |-> "app.utils.post_email"],
     [type |-> "str", value |-> "no.such.path"],
     [type |-> "function", value |-> "constant_a"],
     [type |-> "function", value |-> "returns_None"],
     [type |-> "function", value |-> "post_email"],
     [type |-> "int", value |-> "42"]}

UsernameSettings ==
    {[DefaultSettings EXCEPT !.AXES_USERNAME_CALLABLE = callable, !.AXES_USERNAME_FORM_FIELD = name] :
        callable \in UsernameCallables, name \in {"username", "email"}}

UsernameCredentials ==
    {NoneDict, <<>>, [username |-> <<"b">>], [email |-> <<"b">>],
     [username |-> <<"b">>, email |-> <<"a">>], [password |-> <<"a">>]}

UsernameRequests ==
    [kind : {"HttpRequest"},
     POST : {<<>>, [username |-> <<"U+00E9">>], [email |-> <<"U+00E9">>],
             [username |-> <<"U+00E9">>, email |-> <<"a", "b">>]}]

call_get_client_username ==
    /\ pc = "get_client_username"
    /\ Enter("get_client_username")
    /\ Finish(get_client_username(args.request, args.credentials))
    /\ UNCHANGED <<settings, handler, args>>

InitUsername ==
    /\ settings \in UsernameSettings
    /\ handler = NoHandler
    /\ args \in [function : {"get_client_username"}, request : UsernameRequests,
                 credentials : UsernameCredentials]
    /\ pc = "get_client_username"
    /\ returned = <<>>
    /\ raised = <<>>
    /\ trace = <<>>

NextUsername == call_get_client_username

SpecUsername == InitUsername /\ [][NextUsername]_vars

-----------------------------------------------------------------------------
(* axes/helpers.py: get_cool_off_iso8601; a timedelta of whole seconds is  *)
(* the number of its seconds                                               *)

Digit(d) ==
    CASE d = 0 -> "0" [] d = 1 -> "1" [] d = 2 -> "2" [] d = 3 -> "3" [] d = 4 -> "4"
      [] d = 5 -> "5" [] d = 6 -> "6" [] d = 7 -> "7" [] d = 8 -> "8" [] d = 9 -> "9"

\* f'{value:.0f}' of a float that holds a whole number
RECURSIVE Format0f(_)
Format0f(value) ==
    IF value < 0 THEN "-" \o Format0f(-value)
    ELSE IF value < 10 THEN Digit(value)
    ELSE Format0f(value \div 10) \o Digit(value % 10)

\* f'{value:.0f}{designator}' for the values that are not zero
RECURSIVE TimeStr(_)
TimeStr(parts) ==
    IF parts = <<>> THEN ""
    ELSE (IF Head(parts)[1] # 0 THEN Format0f(Head(parts)[1]) \o Head(parts)[2] ELSE "")
            \o TimeStr(Tail(parts))

\* mutant: the T separator is written whether or not a time component follows
get_cool_off_iso8601_always_T(total_seconds) ==
    LET minutes1 == total_seconds \div 60
        seconds == total_seconds % 60
        hours1 == minutes1 \div 60
        minutes == minutes1 % 60
        days == hours1 \div 24
        hours == hours1 % 24
        days_str == IF days # 0 THEN Format0f(days) \o "D" ELSE ""
        time_str == TimeStr(<<<<hours, "H">>, <<minutes, "M">>, <<seconds, "S">>>>)
    IN  "P" \o days_str \o "T" \o time_str

get_cool_off_iso8601(total_seconds) ==
    LET minutes1 == total_seconds \div 60
        seconds == total_seconds % 60
        hours1 == minutes1 \div 60
        minutes == minutes1 % 60
        days == hours1 \div 24
        hours == hours1 % 24
        days_str == IF days # 0 THEN Format0f(days) \o "D" ELSE ""
        time_str == TimeStr(<<<<hours, "H">>, <<minutes, "M">>, <<seconds, "S">>>>)
    IN  IF time_str # ""
        THEN "P" \o days_str \o "T" \o time_str
        ELSE "P" \o days_str

\* the cool offs drawn: up to MaxDays days and a time of day
Durations ==
    {d * 86400 + h * 3600 + m * 60 + s :
        d \in 0..MaxDays, h \in {0, 1, 10, 23}, m \in {0, 1, 30, 59}, s \in {0, 1, 30, 59}}

call_get_cool_off_iso8601 ==
    /\ pc = "get_cool_off_iso8601"
    /\ Enter("get_cool_off_iso8601")
    /\ Finish(Ret(get_cool_off_iso8601(args.delta)))
    /\ UNCHANGED <<settings, handler, args>>

InitDuration ==
    /\ settings = DefaultSettings
    /\ handler = NoHandler
    /\ args \in [function : {"get_cool_off_iso8601"}, delta : Durations]
    /\ pc = "get_cool_off_iso8601"
    /\ returned = <<>>
    /\ raised = <<>>
    /\ trace = <<>>

NextDuration == call_get_cool_off_iso8601

SpecDuration == InitDuration /\ [][NextDuration]_vars

-----------------------------------------------------------------------------
(* The decision engine's claims, stated on the policy and the attempt alone *)

Done == pc = "done"
ClientIp == args.request.axes_ip_address
IpInWhitelist == settings.AXES_IP_WHITELIST # NoneList /\ InList(ClientIp, settings.AXES_IP_WHITELIST)
IpInBlacklist == settings.AXES_IP_BLACKLIST # NoneList /\ InList(ClientIp, settings.AXES_IP_BLACKLIST)

\* step 1 of the evaluation order matches
BlacklistStepMatches == IpInBlacklist \/ (settings.AXES_ONLY_WHITELIST /\ ~IpInWhitelist)

\* step 2 of the evaluation order matches
WhitelistStepMatches ==
    \/ settings.AXES_NEVER_LOCKOUT_WHITELIST /\ IpInWhitelist
    \/ settings.AXES_ONLY_WHITELIST /\ IpInWhitelist
    \/ settings.AXES_NEVER_LOCKOUT_GET /\ args.request.method = "GET"

\* the number of calls of the failure-count lookup made so far
LookupCalls == Cardinality({i \in DOMAIN trace : trace[i] = "get_failures"})

\* C1: a client whose IP address is in both ip_blacklist and ip_whitelist is
\* denied whatever the other flags, the method and the failure count, and the
\* whitelist step never runs before the blacklist step has run.
C1_BlacklistBeforeWhitelist ==
    /\ (Done /\ IpInBlacklist /\ IpInWhitelist) =>
          (returned = <<FALSE>> /\ raised = <<>> /\ trace = <<"is_allowed", "is_blacklisted">>)
    /\ \A i \in DOMAIN trace :
          trace[i] = "is_whitelisted" => \E j \in 1..(i - 1) : trace[j] = "is_blacklisted"

C1_Witness ==
    /\ Done /\ IpInBlacklist /\ IpInWhitelist
    /\ settings.AXES_NEVER_LOCKOUT_WHITELIST /\ settings.AXES_ONLY_WHITELIST
    /\ settings.AXES_NEVER_LOCKOUT_GET /\ args.request.method = "GET"
    /\ returned = <<FALSE>>

\* C2: with only_whitelist set, an attempt whose IP address is not in
\* ip_whitelist (an absent IP, an empty or unset whitelist included) is
\* denied, although the IP is not in ip_blacklist.
C2_OnlyWhitelistDenies ==
    (Done /\ settings.AXES_ONLY_WHITELIST /\ ~IpInWhitelist) =>
        (returned = <<FALSE>> /\ raised = <<>>)

C2_Witness ==
    /\ Done /\ settings.AXES_ONLY_WHITELIST /\ ~IpInBlacklist
    /\ ClientIp = None /\ settings.AXES_IP_WHITELIST = NoneList
    /\ settings.AXES_NEVER_LOCKOUT_GET /\ args.request.method = "GET"
    /\ handler.raises = "" /\ handler.count = 0
    /\ returned = <<FALSE>>

\* C3: when neither the blacklist step nor the whitelist step matches and
\* lock_out_at_failure is set, the verdict is Denied if and only if the count
\* the lookup returns is at least failure_limit.
C3_ThresholdBoundary ==
    (Done /\ ~BlacklistStepMatches /\ ~WhitelistStepMatches
          /\ settings.AXES_LOCK_OUT_AT_FAILURE /\ handler.raises = "") =>
        /\ returned \in {<<TRUE>>, <<FALSE>>}
        /\ returned = <<FALSE>> <=> handler.count >= settings.AXES_FAILURE_LIMIT
        /\ handler.count = settings.AXES_FAILURE_LIMIT - 1 => returned = <<TRUE>>
        /\ handler.count = settings.AXES_FAILURE_LIMIT => returned = <<FALSE>>

C3_Witness ==
    /\ Done /\ ~BlacklistStepMatches /\ ~WhitelistStepMatches
    /\ settings.AXES_LOCK_OUT_AT_FAILURE /\ handler.raises = ""
    /\ handler.count = settings.AXES_FAILURE_LIMIT
    /\ ClientIp = IpA
    /\ returned = <<FALSE>>

\* C4 as claimed: with never_lockout_get set, every GET attempt is allowed.
C4_Original ==
    (Done /\ settings.AXES_NEVER_LOCKOUT_GET /\ args.request.method = "GET") =>
        returned = <<TRUE>>

\* C4 as amended: with never_lockout_get set, every GET attempt that the
\* blacklist step does not match is allowed regardless of the failure count,
\* and the lookup is not consulted.
C4_SafeMethodBypass ==
    (Done /\ settings.AXES_NEVER_LOCKOUT_GET /\ args.request.method = "GET"
          /\ ~BlacklistStepMatches) =>
        (returned = <<TRUE>> /\ raised = <<>> /\ LookupCalls = 0)

C4_Witness ==
    /\ Done /\ settings.AXES_NEVER_LOCKOUT_GET /\ args.request.method = "GET"
    /\ ~BlacklistStepMatches /\ ~IpInWhitelist
    /\ settings.AXES_LOCK_OUT_AT_FAILURE
    /\ handler.raises = "" /\ handler.count > settings.AXES_FAILURE_LIMIT
    /\ returned = <<TRUE>>

\* C9: the lookup is called at most once, and only when neither list step
\* matched and lock_out_at_failure is set; otherwise the verdict is returned
\* without the lookup, whatever the lookup would do; an error the lookup
\* raises leaves is_allowed as that error, with no verdict.
C9_LookupOnlyWhenNeeded ==
    /\ LookupCalls <= 1
    /\ LookupCalls = 1 =>
          (~BlacklistStepMatches /\ ~WhitelistStepMatches /\ settings.AXES_LOCK_OUT_AT_FAILURE)
    /\ (Done /\ (BlacklistStepMatches \/ WhitelistStepMatches \/ ~settings.AXES_LOCK_OUT_AT_FAILURE)) =>
          /\ LookupCalls = 0
          /\ raised = <<>>
          /\ returned = <<~BlacklistStepMatches>>
    /\ (Done /\ LookupCalls = 1 /\ handler.raises # "") =>
          (raised = <<handler.raises>> /\ returned = <<>>)
    /\ (Done /\ raised # <<>>) => (LookupCalls = 1 /\ raised = <<handler.raises>>)

C9_Witness ==
    /\ Done /\ LookupCalls = 1
    /\ handler.raises = "NotImplementedError"
    /\ raised = <<"NotImplementedError">> /\ returned = <<>>

-----------------------------------------------------------------------------
(* The cache key's claims *)

KeyDone == pc = "done" /\ args.function = "get_client_cache_key"
ParametersDone == pc = "done" /\ args.function = "get_client_parameters"

\* the fingerprint of the call: the attempt's fields, or what is resolved from
\* the request
Fingerprint ==
    IF args.request_or_attempt.kind = "AccessAttempt" THEN args.request_or_attempt
    ELSE [kind |-> "AccessAttempt",
          username |-> get_client_username(args.request_or_attempt, args.credentials).returned[1],
          ip_address |-> get_client_ip_address(args.request_or_attempt),
          user_agent |-> get_client_user_agent(args.request_or_attempt)]

\* the names of the fields the policy selects, in order (spec 4.2)
SelectedFields ==
    IF settings.AXES_ONLY_USER_FAILURES THEN <<"username">>
    ELSE (IF settings.AXES_LOCK_OUT_BY_COMBINATION_USER_AND_IP
          THEN <<"username", "ip_address">> ELSE <<"ip_address">>)
         \o (IF settings.AXES_USE_USER_AGENT THEN <<"user_agent">> ELSE <<>>)

SameSelectedValues(one, other) ==
    \A i \in DOMAIN SelectedFields : one[SelectedFields[i]] = other[SelectedFields[i]]

\* the selected values that are not empty, one after the other from field i on
RECURSIVE ConcatenationFrom(_, _)
ConcatenationFrom(fingerprint, i) ==
    IF i > Len(SelectedFields) THEN <<>>
    ELSE (IF fingerprint[SelectedFields[i]] \in {None, <<>>} THEN <<>>
          ELSE fingerprint[SelectedFields[i]])
            \o ConcatenationFrom(fingerprint, i + 1)

Concatenation(fingerprint) == ConcatenationFrom(fingerprint, 1)

KeyOf(fingerprint) == get_client_cache_key(fingerprint, NoneDict).returned

\* C5: two fingerprints with the same values in the selected fields get the
\* same key whatever their other fields hold; with only_user_failures set, a
\* change of the IP address or of the user agent never changes the key.
C5_Coalescing ==
    KeyDone =>
        /\ \A other \in Attempts : SameSelectedValues(Fingerprint, other) => returned = KeyOf(other)
        /\ settings.AXES_ONLY_USER_FAILURES =>
              \A ip \in IpAddresses, agent \in UserAgents :
                  /\ returned = KeyOf([Fingerprint EXCEPT !.ip_address = ip])
                  /\ returned = KeyOf([Fingerprint EXCEPT !.user_agent = agent])

C5_Witness ==
    /\ KeyDone /\ settings.AXES_ONLY_USER_FAILURES
    /\ settings.AXES_LOCK_OUT_BY_COMBINATION_USER_AND_IP /\ settings.AXES_USE_USER_AGENT
    /\ Fingerprint.username = <<"a">>
    /\ Fingerprint.ip_address = <<"U+00E9", "a">> /\ Fingerprint.user_agent = <<"a">>
    /\ returned = KeyOf([Fingerprint EXCEPT !.ip_address = None, !.user_agent = None])
    /\ returned = <<"axes-0cc175b9c0f1b6a831c399e269772661">>

\* C6: get_client_parameters returns [username] with only_user_failures,
\* otherwise [username, ip_address] with the combination flag, otherwise
\* [ip_address], with user_agent last in the two latter shapes exactly when
\* use_user_agent is set; each key holds the argument of its name.
C6_TrackingShapes ==
    ParametersDone =>
        LET filter_kwargs == returned[1]
            keys == [i \in DOMAIN filter_kwargs |-> filter_kwargs[i][1]]
        IN  /\ settings.AXES_ONLY_USER_FAILURES => keys = <<"username">>
            /\ (~settings.AXES_ONLY_USER_FAILURES /\ settings.AXES_LOCK_OUT_BY_COMBINATION_USER_AND_IP) =>
                  keys = IF settings.AXES_USE_USER_AGENT
                         THEN <<"username", "ip_address", "user_agent">>
                         ELSE <<"username", "ip_address">>
            /\ (~settings.AXES_ONLY_USER_FAILURES /\ ~settings.AXES_LOCK_OUT_BY_COMBINATION_USER_AND_IP) =>
                  keys = IF settings.AXES_USE_USER_AGENT
                         THEN <<"ip_address", "user_agent">>
                         ELSE <<"ip_address">>
            /\ \A i \in DOMAIN filter_kwargs : filter_kwargs[i][2] = args[keys[i]]

C6_Witness ==
    /\ ParametersDone /\ settings.AXES_ONLY_USER_FAILURES
    /\ settings.AXES_LOCK_OUT_BY_COMBINATION_USER_AND_IP /\ settings.AXES_USE_USER_AGENT
    /\ args.user_agent = <<"a">> /\ args.ip_address = <<"a">>
    /\ returned = << << <<"username", <<"a", "U+00E9">> >> >> >>

\* C10: the key depends on the concatenation of the non-empty selected values
\* alone: fingerprints whose selected values concatenate to the same text get
\* the same key; when every selected value is absent the key is the digest of
\* the empty string.
C10_KeyOfConcatenation ==
    KeyDone =>
        /\ \A other \in Attempts :
              Concatenation(other) = Concatenation(Fingerprint) => returned = KeyOf(other)
        /\ Concatenation(Fingerprint) = <<>> =>
              returned = <<"axes-d41d8cd98f00b204e9800998ecf8427e">>
        /\ Concatenation(Fingerprint) = <<"a">> =>
              returned = <<"axes-0cc175b9c0f1b6a831c399e269772661">>

C10_Witness ==
    /\ KeyDone /\ ~settings.AXES_ONLY_USER_FAILURES
    /\ settings.AXES_LOCK_OUT_BY_COMBINATION_USER_AND_IP /\ ~settings.AXES_USE_USER_AGENT
    /\ Fingerprint.username = <<"a", "U+00E9">> /\ Fingerprint.ip_address = <<"a">>
    /\ returned = KeyOf([Fingerprint EXCEPT !.username = <<"a">>, !.ip_address = <<"U+00E9", "a">>])

-----------------------------------------------------------------------------
(* The username's claim *)

UsernameDone == pc = "done" /\ args.function = "get_client_username"

\* a custom username callable is configured: a callable, or a path to one
CallableConfigured ==
    \/ settings.AXES_USERNAME_CALLABLE.type = "function"
    \/ /\ settings.AXES_USERNAME_CALLABLE.type = "str"
       /\ settings.AXES_USERNAME_CALLABLE.value \in {"app.utils.constant_a", "app.utils.post_email"}

CallableUnset ==
    \/ settings.AXES_USERNAME_CALLABLE.type = "NoneType"
    \/ settings.AXES_USERNAME_CALLABLE.type = "str" /\ settings.AXES_USERNAME_CALLABLE.value = ""

\* the result of the configured callable for the call
ConfiguredResult ==
    CallUsernameCallable(
        IF settings.AXES_USERNAME_CALLABLE.type = "function"
        THEN settings.AXES_USERNAME_CALLABLE.value
        ELSE IF settings.AXES_USERNAME_CALLABLE.value = "app.utils.constant_a"
        THEN "constant_a" ELSE "post_email",
        args.request, args.credentials)

\* C8: the result of a configured callable is returned as it is; otherwise,
\* if credentials were supplied, the username is the credentials' entry under
\* the configured field name and the form data is not read; otherwise it is
\* the form data's entry; a missing entry is None.
C8_UsernamePrecedence ==
    UsernameDone =>
        /\ CallableConfigured => returned = <<ConfiguredResult>>
        /\ (CallableUnset /\ args.credentials # NoneDict) =>
              returned = <<DictGet(args.credentials, settings.AXES_USERNAME_FORM_FIELD)>>
        /\ (CallableUnset /\ args.credentials = NoneDict) =>
              returned = <<DictGet(args.request.POST, settings.AXES_USERNAME_FORM_FIELD)>>

-----------------------------------------------------------------------------
(* The duration's claim *)

DurationDone == pc = "done" /\ args.function = "get_cool_off_iso8601"

\* the number followed by its designator, nothing for zero
Component(value, designator) == IF value = 0 THEN "" ELSE ToString(value) \o designator

\* C7: a duration of whole seconds is written P, the days if not zero, and,
\* if hours, minutes or seconds are not zero, T and those of them that are
\* not zero; 1 hour 30 minutes is PT1H30M, 2 days P2D, nothing P.
C7_DurationFormat ==
    DurationDone =>
        LET days == args.delta \div 86400
            hours == (args.delta % 86400) \div 3600
            minutes == (args.delta % 3600) \div 60
            seconds == args.delta % 60
        IN  /\ returned =
                  <<"P" \o Component(days, "D")
                       \o (IF hours = 0 /\ minutes = 0 /\ seconds = 0 THEN ""
                           ELSE "T" \o Component(hours, "H") \o Component(minutes, "M")
                                    \o Component(seconds, "S"))>>
            /\ args.delta = 5400 => returned = <<"PT1H30M">>
            /\ args.delta = 172800 => returned = <<"P2D">>
            /\ args.delta = 0 => returned = <<"P">>

C7_Witness ==
    /\ DurationDone
    /\ args.delta = 2 * 86400 + 3600 + 30 * 60
    /\ returned = <<"P2DT1H30M">>

====
